---- MODULE Spec2Model ----
(***************************************************************************)
(* Model of pymodbus/utilities.py: the bit packer (packBitsToString,       *)
(* unpackBitsFromString) and the checksum engine (CRC16 table, computeCRC, *)
(* checkCRC, computeLRC, checkLRC).                                        *)
(*                                                                         *)
(* A Python 2 str is modelled as a sequence of byte values 0..255, a list  *)
(* of bools as a sequence of BOOLEAN, a Python int as an Int (unbounded,   *)
(* as in Python).  The state is the module-level CRC table plus the last   *)
(* call made into the module (function, arguments, outcome) and, when the  *)
(* last call consumed the result of the call before it, that earlier call. *)
(***************************************************************************)
EXTENDS Integers, Sequences, FiniteSets

VARIABLES crc16_table, call, prev

vars == <<crc16_table, call, prev>>

(* ----------------------------- bounds ---------------------------------- *)
\* longest bit list passed to packBitsToString
MaxBits == 10
\* longest byte string passed to unpackBitsFromString / computeCRC / checkCRC
MaxLen == 3
\* longest byte string in the exhaustive (data, data') pairs of the LRC check
MaxPair == 2

\* byte values the inputs are drawn from
Bytes == {0, 1, 2, 3, 128, 255}

\* the published Modbus RTU request frame 01 03 00 00 00 0A
KnownVector == <<1, 3, 0, 0, 0, 10>>

BitSeqs(n) == UNION {[1..k -> BOOLEAN] : k \in 0..n}
ByteSeqs(n) == UNION {[1..k -> Bytes] : k \in 0..n}


(* ------------------------- integer bit operations ---------------------- *)
RECURSIVE Pow2(_)
Pow2(n) == IF n = 0 THEN 1 ELSE 2 * Pow2(n - 1)

\* Python's a ^ b on non-negative ints
RECURSIVE Xor(_, _)
Xor(a, b) ==
    IF a = 0 THEN b
    ELSE IF b = 0 THEN a
    ELSE (((a % 2) + (b % 2)) % 2) + 2 * Xor(a \div 2, b \div 2)

\* Python's a >> n on non-negative ints
Shr(a, n) == a \div Pow2(n)

(* chr(n): the one-byte string of value n; ValueError outside range(256).  *)
chr(n) == IF n \in 0..255 THEN n ELSE "ValueError"
(* ord(c): the value of the byte c *)
ord(c) == c

(* ------------------------------ outcomes ------------------------------- *)
Return(v) == [ret |-> v, exc |-> "None"]
Raise(e) == [ret |-> <<>>, exc |-> e]

(* ------------------------------ Bit Packer ----------------------------- *)
(* The for loop of packBitsToString from the k-th bit on; i, packed, ret   *)
(* are the loop's locals.  Yields the locals after the loop.               *)
RECURSIVE packLoop(_, _, _, _, _)
packLoop(bits, k, i, packed, ret) ==
    IF k > Len(bits) THEN [i |-> i, packed |-> packed, ret |-> ret]
    ELSE LET p1 == IF bits[k] THEN packed + 128 ELSE packed
             i1 == i + 1
         IN  IF i1 = 8
             THEN packLoop(bits, k + 1, 0, 0, Append(ret, chr(p1)))
             ELSE packLoop(bits, k + 1, i1, Shr(p1, 1), ret)

\* mutant: the trailing partial byte is shifted by 8-i instead of 7-i
packBitsToString_shift8(bits) ==
    LET l == packLoop(bits, 1, 0, 0, <<>>)
    IN  IF l.i > 0 /\ l.i < 8
        THEN Append(l.ret, chr(Shr(l.packed, 8 - l.i)))
        ELSE l.ret

\* mutant: the trailing partial byte is never emitted
packBitsToString_nopartial(bits) ==
    LET l == packLoop(bits, 1, 0, 0, <<>>)
    IN  l.ret

\* mutant: the trailing partial byte is emitted unshifted (left-justified)
packBitsToString_noshift(bits) ==
    LET l == packLoop(bits, 1, 0, 0, <<>>)
    IN  IF l.i > 0 /\ l.i < 8
        THEN Append(l.ret, chr(2 * l.packed))
        ELSE l.ret

packBitsToString(bits) ==
    LET l == packLoop(bits, 1, 0, 0, <<>>)
    IN  IF l.i > 0 /\ l.i < 8
        THEN Append(l.ret, chr(Shr(l.packed, 7 - l.i)))
        ELSE l.ret

(* The inner loop of unpackBitsFromString: the 8 bits of value, LSB first. *)
RECURSIVE unpackByte(_, _)
unpackByte(value, bit) ==
    IF bit = 8 THEN <<>>
    ELSE <<(value % 2) = 1>> \o unpackByte(Shr(value, 1), bit + 1)

(* The outer loop, for byte in range(1, byte_count+1).  string[byte] with  *)
(* byte >= len(string) raises IndexError (Python index byte is TLA+ index  *)
(* byte + 1).                                                              *)
RECURSIVE unpackLoop(_, _, _, _)
unpackLoop(string, byte, byte_count, bits) ==
    IF byte > byte_count THEN Return(<<bits, byte_count>>)
    ELSE IF byte >= Len(string) THEN Raise("IndexError")
    ELSE unpackLoop(string, byte + 1, byte_count,
                    bits \o unpackByte(ord(string[byte + 1]), 0))

\* mutant: the loop runs over range(1, byte_count), dropping the last byte
unpackBitsFromString_short(string) ==
    IF Len(string) = 0 THEN Raise("IndexError")
    ELSE LET byte_count == ord(string[1])
             r == unpackLoop(string, 1, byte_count - 1, <<>>)
         IN  IF r.exc = "None" THEN Return(<<r.ret[1], byte_count>>) ELSE r

\* mutant: a declared count beyond the supplied bytes is clamped, not an error
unpackBitsFromString_clamp(string) ==
    IF Len(string) = 0 THEN Raise("IndexError")
    ELSE LET byte_count == ord(string[1])
             n == IF byte_count < Len(string) THEN byte_count ELSE Len(string) - 1
         IN  unpackLoop(string, 1, n, <<>>)

unpackBitsFromString(string) ==
    IF Len(string) = 0 THEN Raise("IndexError")
    ELSE unpackLoop(string, 1, ord(string[1]), <<>>)

(* ----------------------------- CRC16 table ----------------------------- *)
(* The inner loop of __generate_crc16_table, from iteration bit on. *)
RECURSIVE crc16_entry(_, _, _)
crc16_entry(byte, crc, bit) ==
    IF bit = 8 THEN crc
    ELSE IF (Xor(byte, crc) % 2) = 1
         THEN crc16_entry(Shr(byte, 1), Xor(Shr(crc, 1), 40961), bit + 1)
         ELSE crc16_entry(Shr(byte, 1), Shr(crc, 1), bit + 1)

(* The list built by __generate_crc16_table; a Python list of 256 items is *)
(* a function on 0..255.                                                   *)
generate_crc16_table == [byte \in 0..255 |-> crc16_entry(byte, 0, 0)]

(* ------------------------------- CRC16 --------------------------------- *)
(* The for loop of computeCRC from the k-th byte on, reading table. *)
RECURSIVE crcLoop(_, _, _, _)
crcLoop(table, data, k, crc) ==
    IF k > Len(data) THEN crc
    ELSE LET idx == table[Xor(crc, ord(data[k])) % 256]
         IN  crcLoop(table, data, k + 1, Xor(Shr(crc, 8) % 256, idx))

\* mutant: the table index is masked with 0x7f
RECURSIVE crcLoop_mask7f(_, _, _, _)
crcLoop_mask7f(table, data, k, crc) ==
    IF k > Len(data) THEN crc
    ELSE LET idx == table[Xor(crc, ord(data[k])) % 128]
         IN  crcLoop_mask7f(table, data, k + 1, Xor(Shr(crc, 8) % 256, idx))

computeCRC_mask7f(table, data) == crcLoop_mask7f(table, data, 1, 65535)

\* mutant: the generic CRC16 seed 0 instead of the Modbus seed 0xffff
computeCRC_seed0(table, data) == crcLoop(table, data, 1, 0)

computeCRC(table, data) == crcLoop(table, data, 1, 65535)

checkCRC(table, data, check) == computeCRC(table, data) = check

(* -------------------------------- LRC ---------------------------------- *)
RECURSIVE sum(_)
sum(data) == IF data = <<>> THEN 0 ELSE ord(Head(data)) + sum(Tail(data))

\* mutant: the byte sum is masked with 0x7f
computeLRC_mask7f(data) == Xor(sum(data) % 128, 255) + 1

computeLRC(data) ==
    LET lrc0 == sum(data) % 256
    IN  Xor(lrc0, 255) + 1

checkLRC(data, check) == computeLRC(data) = check

(* --------------------------- the state machine ------------------------- *)
(* A call into the module: the function, its arguments (the parameters it  *)
(* does not have are empty), what it returned and the exception it raised. *)
Call(fn, bits, string, data, check, out) ==
    [fn |-> fn, bits |-> bits, string |-> string, data |-> data,
     check |-> check, ret |-> out.ret, exc |-> out.exc]

NoCall == Call("none", <<>>, <<>>, <<>>, 0, Return(<<>>))

\* check values passed to checkCRC / checkLRC by a caller that did not compute them
CheckValues == {0, 1, 242, 255, 256, 52677, 65535}

(* Module import: line 81 has run, no function has been called yet. *)
Init ==
    /\ crc16_table = generate_crc16_table
    /\ call = NoCall
    /\ prev = NoCall

PackBitsToString ==
    /\ call.fn = "none"
    /\ \E bits \in BitSeqs(MaxBits) :
           call' = Call("packBitsToString", bits, <<>>, <<>>, 0,
                        Return(packBitsToString(bits)))
    /\ prev' = NoCall
    /\ UNCHANGED crc16_table

UnpackBitsFromString ==
    /\ call.fn = "none"
    /\ \E string \in ByteSeqs(MaxLen) :
           call' = Call("unpackBitsFromString", <<>>, string, <<>>, 0,
                        unpackBitsFromString(string))
    /\ prev' = NoCall
    /\ UNCHANGED crc16_table

(* A caller hands the string packBitsToString just returned to             *)
(* unpackBitsFromString as it is.                                          *)
UnpackPacked ==
    /\ call.fn = "packBitsToString"
    /\ call' = Call("unpackBitsFromString", <<>>, call.ret, <<>>, 0,
                    unpackBitsFromString(call.ret))
    /\ prev' = call
    /\ UNCHANGED crc16_table

(* A caller puts the byte count in front of the string packBitsToString    *)
(* just returned and hands the frame to unpackBitsFromString.              *)
UnpackFramed ==
    /\ call.fn = "packBitsToString"
    /\ LET frame == <<chr(Len(call.ret))>> \o call.ret
       IN  call' = Call("unpackBitsFromString", <<>>, frame, <<>>, 0,
                        unpackBitsFromString(frame))
    /\ prev' = call
    /\ UNCHANGED crc16_table

\* mutant: computeCRC stores its running value back into the table
ComputeCRC_writes ==
    /\ call.fn = "none"
    /\ \E data \in ByteSeqs(MaxLen) \cup {KnownVector} :
           /\ call' = Call("computeCRC", <<>>, <<>>, data, 0,
                           Return(computeCRC(crc16_table, data)))
           /\ crc16_table' =
                  [crc16_table EXCEPT ![0] = computeCRC(crc16_table, data)]
    /\ prev' = NoCall

ComputeCRC ==
    /\ call.fn = "none"
    /\ \E data \in ByteSeqs(MaxLen) \cup {KnownVector} :
           call' = Call("computeCRC", <<>>, <<>>, data, 0,
                        Return(computeCRC(crc16_table, data)))
    /\ prev' = NoCall
    /\ UNCHANGED crc16_table

CheckCRC ==
    /\ call.fn = "none"
    /\ \E data \in ByteSeqs(MaxPair), check \in CheckValues :
           call' = Call("checkCRC", <<>>, <<>>, data, check,
                        Return(checkCRC(crc16_table, data, check)))
    /\ prev' = NoCall
    /\ UNCHANGED crc16_table

\* the strings of the length of data that differ from it in at most one byte
Mutations(data) ==
    {data} \cup {[data EXCEPT ![p] = b] : p \in 1..Len(data), b \in Bytes}

(* A receiver checks a string against the CRC a sender computed: the last  *)
(* call was computeCRC, and its result is the check argument.              *)
CheckSentCRC ==
    /\ call.fn = "computeCRC"
    /\ \E data \in Mutations(call.data) :
           call' = Call("checkCRC", <<>>, <<>>, data, call.ret,
                        Return(checkCRC(crc16_table, data, call.ret)))
    /\ prev' = call
    /\ UNCHANGED crc16_table

ComputeLRC ==
    /\ call.fn = "none"
    /\ \E data \in ByteSeqs(MaxLen) \cup {KnownVector} :
           call' = Call("computeLRC", <<>>, <<>>, data, 0,
                        Return(computeLRC(data)))
    /\ prev' = NoCall
    /\ UNCHANGED crc16_table

CheckLRC ==
    /\ call.fn = "none"
    /\ \E data \in ByteSeqs(MaxPair), check \in CheckValues :
           call' = Call("checkLRC", <<>>, <<>>, data, check,
                        Return(checkLRC(data, check)))
    /\ prev' = NoCall
    /\ UNCHANGED crc16_table

(* A receiver checks a string of the sender's length against the LRC the   *)
(* sender computed.                                                        *)
CheckSentLRC ==
    /\ call.fn = "computeLRC"
    /\ Len(call.data) <= MaxPair
    /\ \E data \in [1..Len(call.data) -> Bytes] :
           call' = Call("checkLRC", <<>>, <<>>, data, call.ret,
                        Return(checkLRC(data, call.ret)))
    /\ prev' = call
    /\ UNCHANGED crc16_table

(* The caller is done with the outcome of the last call; the module is     *)
(* between calls again, its table as it was.                               *)
Done ==
    /\ call.fn # "none"
    /\ call' = NoCall
    /\ prev' = NoCall
    /\ UNCHANGED crc16_table

Next ==
    \/ PackBitsToString
    \/ UnpackBitsFromString
    \/ UnpackPacked
    \/ UnpackFramed
    \/ ComputeCRC
    \/ CheckCRC
    \/ CheckSentCRC
    \/ ComputeLRC
    \/ CheckLRC
    \/ CheckSentLRC
    \/ Done

Spec == Init /\ [][Next]_vars

(* ======================= properties of the module ====================== *)
CeilDiv8(n) == (n + 7) \div 8

\* bit i (LSB = bit 0) of the byte value v
BitOf(v, i) == ((v \div Pow2(i)) % 2) = 1

\* bits followed by FALSE up to the next multiple of 8
Padded(bits) ==
    [k \in 1..(8 * CeilDiv8(Len(bits))) |-> IF k <= Len(bits) THEN bits[k] ELSE FALSE]

\* the number of positions at which two strings of one length differ
DiffCount(a, b) == Cardinality({p \in 1..Len(a) : a[p] # b[p]})

IsRoundTrip ==
    /\ call.fn = "unpackBitsFromString"
    /\ prev.fn = "packBitsToString"
    /\ call.string = prev.ret

IsFramedRoundTrip ==
    /\ call.fn = "unpackBitsFromString"
    /\ prev.fn = "packBitsToString"
    /\ call.string = <<Len(prev.ret)>> \o prev.ret

C3_UnpackLayout ==
    (/\ call.fn = "unpackBitsFromString"
     /\ Len(call.string) >= 1
     /\ Len(call.string) >= call.string[1] + 1) =>
        LET N == call.string[1]
        IN  /\ call.exc = "None"
            /\ call.ret[2] = N
            /\ Len(call.ret[1]) = 8 * N
            /\ \A b \in 1..N : \A i \in 0..7 :
                   call.ret[1][8 * (b - 1) + i + 1] = BitOf(call.string[b + 1], i)

C3_Witness ==
    /\ call.fn = "unpackBitsFromString"
    /\ call.string = <<1, 128, 255>>
    /\ call.ret = <<<<FALSE, FALSE, FALSE, FALSE, FALSE, FALSE, FALSE, TRUE>>, 1>>

IsMalformed(string) == Len(string) = 0 \/ string[1] > Len(string) - 1

RECURSIVE RefShift(_, _)
RefShift(crc, n) ==
    IF n = 0 THEN crc
    ELSE IF crc % 2 = 1
         THEN RefShift(Xor(crc \div 2, 40961), n - 1)
         ELSE RefShift(crc \div 2, n - 1)

\* the running value is a 16-bit value after every byte
RECURSIVE RefCRC(_, _)
RefCRC(data, crc) ==
    IF data = <<>> THEN crc
    ELSE LET next == RefShift(Xor(crc, Head(data)), 8)
         IN  CASE next \in 0..65535 -> RefCRC(Tail(data), next)

(* C5: computeCRC(data) is the bit-serial CRC-16/MODBUS of data seeded     *)
(* with 0xFFFF, a value in 0..0xFFFF; 0xFFFF on the empty string and       *)
(* 0xCDC5 on 01 03 00 00 00 0A.                                            *)
C5_CRCReference ==
    call.fn = "computeCRC" =>
        /\ call.ret = RefCRC(call.data, 65535)
        /\ call.ret \in 0..65535
        /\ (call.data = <<>> => call.ret = 65535)
        /\ (call.data = <<1, 3, 0, 0, 0, 10>> => call.ret = 52677)

C5_Witness ==
    /\ call.fn = "computeCRC"
    /\ call.data = <<1, 3, 0, 0, 0, 10>>
    /\ call.ret = 52677
    /\ call.ret % 256 = 197
    /\ call.ret \div 256 = 205

(* C6 as stated: computeLRC(data) is an unsigned 8-bit value equal to      *)
(* (256 - sum(data)) mod 256, so 0 whenever sum(data) mod 256 = 0.         *)
C6_LRCRange ==
    call.fn = "computeLRC" =>
        /\ call.ret \in 0..255
        /\ call.ret = (256 - (sum(call.data) % 256)) % 256
        /\ (sum(call.data) % 256 = 0 => call.ret = 0)

IsSentCRCCheck ==
    /\ call.fn = "checkCRC"
    /\ prev.fn = "computeCRC"
    /\ call.check = prev.ret
    /\ Len(call.data) = Len(prev.data)

(* C7: checkCRC(data, computeCRC(data)) is true, and checkCRC(data',       *)
(* computeCRC(data)) is false for every data' of the same length that      *)
(* differs from data in exactly one byte.                                  *)
C7_CRCDetectsOneByte ==
    IsSentCRCCheck =>
        /\ (call.data = prev.data => call.ret = TRUE)
        /\ (DiffCount(call.data, prev.data) = 1 => call.ret = FALSE)

C7_Witness ==
    /\ IsSentCRCCheck
    /\ prev.data = <<1, 0, 255>>
    /\ call.data = <<1, 128, 255>>
    /\ call.ret = FALSE

(* C8: the bytes packBitsToString emits number ceil(len/8); input bit j is *)
(* at bit position j mod 8 (LSB = 0) of byte floor(j/8); the high bits of  *)
(* a partial last byte are zero; every byte is in 0..255.                  *)
C8_PackLayout ==
    call.fn = "packBitsToString" =>
        LET n == Len(call.bits)
            k == n % 8
        IN  /\ Len(call.ret) = CeilDiv8(n)
            /\ \A p \in 1..Len(call.ret) : call.ret[p] \in 0..255
            /\ \A j \in 0..(n - 1) :
                   BitOf(call.ret[(j \div 8) + 1], j % 8) = call.bits[j + 1]
            /\ (k > 0 => call.ret[Len(call.ret)] < Pow2(k))

C8_Witness ==
    /\ call.fn = "packBitsToString"
    /\ call.bits = <<FALSE, TRUE, FALSE, TRUE, FALSE, FALSE, FALSE, FALSE, TRUE, TRUE>>
    /\ call.ret = <<10, 3>>

IsSentLRCCheck ==
    /\ call.fn = "checkLRC"
    /\ prev.fn = "computeLRC"
    /\ call.check = prev.ret
    /\ Len(call.data) = Len(prev.data)

(* C9: checkLRC(data, computeLRC(data)) is true; checkLRC(data',           *)
(* computeLRC(data)) is false when data' differs from data in exactly one  *)
(* byte; for data' of the same length it is true exactly when the byte     *)
(* sums of data and data' agree modulo 256.                                *)
C9_LRCDetection ==
    IsSentLRCCheck =>
        /\ (call.data = prev.data => call.ret = TRUE)
        /\ (DiffCount(call.data, prev.data) = 1 => call.ret = FALSE)
        /\ (call.ret = TRUE <=> sum(call.data) % 256 = sum(prev.data) % 256)

C9_Witness ==
    /\ IsSentLRCCheck
    /\ prev.data = <<1, 255>>
    /\ call.data = <<0, 0>>
    /\ call.ret = TRUE

C9_WitnessOneByte ==
    /\ IsSentLRCCheck
    /\ prev.data = <<1, 0>>
    /\ call.data = <<1, 128>>
    /\ call.ret = FALSE

(* The table entry for b as the specification words it: from crc = 0,      *)
(* 8 steps of: if (b XOR crc) has low bit 1 then crc = (crc >> 1) XOR      *)
(* 0xA001 else crc = crc >> 1; b = b >> 1.                                 *)
RECURSIVE TableEntry(_, _, _)
TableEntry(b, crc, steps) ==
    IF steps = 0 THEN crc
    ELSE TableEntry(b \div 2,
                    IF ((b % 2) + (crc % 2)) % 2 = 1
                    THEN Xor(crc \div 2, 40961) ELSE crc \div 2,
                    steps - 1)

ReferenceTable == [b \in 0..255 |-> TableEntry(b, 0, 8)]

(* C10: in every reachable state the CRC16 table is the one built at       *)
(* import: 256 entries, each in 0..0xFFFF, entry b the 8-step remainder of *)
(* b under the reflected polynomial 0xA001.                                *)
C10_TableImmutable ==
    /\ DOMAIN crc16_table = 0..255
    /\ \A b \in 0..255 : crc16_table[b] \in 0..65535
    /\ crc16_table = ReferenceTable
    /\ crc16_table[0] = 0
    /\ crc16_table[1] = 49345
    /\ crc16_table[255] = 16448

C10_Witness ==
    /\ call.fn = "checkCRC"
    /\ prev.fn = "computeCRC"
    /\ prev.data = <<1, 2, 3>>
    /\ crc16_table[128] = 40961

====
